---- MODULE Spec2Model ----
(***************************************************************************)
(* Model of the collage scene engine: the SlotManager that maps photo ids  *)
(* to display slots, the AnimationController frame that composes the       *)
(* per-slot output, the pattern position cache, and the camera             *)
(* choreography (CameraController + CameraMovementSystem).                 *)
(***************************************************************************)
EXTENDS Integers, Sequences, FiniteSets, TLC

(***************************************************************************)
(* Program constants                                                       *)
(***************************************************************************)
\* assignSlots: Math.max(safePhotos.length + 50, 100)
SLOT_HEADROOM == 50

MIN_SLOTS == 100

\* settings.photoCount || 100
DEFAULT_PHOTO_COUNT == 100

\* SceneSettings "Max Photos" slider: min="10"
MIN_PHOTO_COUNT == 10

\* patterns: Math.min(this.settings.photoCount, 500)
MAX_PHOTOS == 500

\* BasePattern.getCacheKey: Math.floor(time * 60) / 60
TIME_GRANULARITY == 60

\* BasePattern.CACHE_DURATION = 16.67 ms, in hundredths of a millisecond
CACHE_DURATION_X100 == 1667

\* BasePattern.generatePositions: if (this.positionCache.size > 100)
POSITION_CACHE_MAX == 100

\* PatternFactory.createPattern: if (this.patternInstances.size > 20)
FACTORY_CACHE_MAX == 20

\* the throttle of updatePositions: 16.67 ms, in hundredths
THROTTLE_X100 == 1667

\* FloatPattern: this.settings.floorSize || 200
DEFAULT_FLOOR_SIZE == 200

\* PhotoMesh: TELEPORT_THRESHOLD = 30
TELEPORT_THRESHOLD == 30

\* POSITION_SMOOTHING = 0.1 and ROTATION_SMOOTHING = 0.1, as divisors
POSITION_SMOOTHING_DIVISOR == 10

ROTATION_SMOOTHING_DIVISOR == 10

\* setTimeout(..., 1500): the quiet period after an 'end' event, in ms
QUIET_PERIOD == 1500

\* CameraController: settings.cameraRotationSpeed || 0.2, in 1/100 rad/s
AUTO_ROTATION_SPEED == 20

\* handleGlobalCameraRotation: settings.cameraRotationSpeed || 0.5
GLOBAL_ROTATION_SPEED == 50

\* CameraMovementSystem: (settings.cameraRotationSpeed || 0.2) * 0.5
PATH_SPEED == 20

(***************************************************************************)
(* Bounds of the model                                                     *)
(***************************************************************************)
\* ids 1..Few are used for the short photo lists (every order of them)
Few == 2

\* the long photo lists are runs of ids that end up to Extra ids above MIN_SLOTS
Extra == 1

\* longest short list
MaxShort == 2

\* animation time is counted in ticks of 1/TicksPerSecond s
TicksPerSecond == 120

\* largest animation time, in ticks
MaxTime == 3

\* largest animation time of a frame of the scene, in ticks
MaxFrameTime == 1

\* largest value of the wall clock performance.now(), in ms
MaxNow == 3

\* the wall clock of the camera advances MaxElapses times by ClockStep ms
ClockStep == 1500

MaxElapses == 1

\* the pointers that can be down at once
MaxPointers == 1

\* the timers that can be pending at once
MaxTimers == 1

\* frames run while the orbit angle and the camera time are at most these
MaxOrbit == 20

MaxCameraTime == 10

\* requestAnimationFrame hands out the handles 1..MaxHandle in turn
MaxHandle == 3

\* generatePositions calls on one instance after its cache has become full
CacheExtra == 3

\* a PhotoMesh blends at most MaxBlends times in a row towards one target
MaxBlends == 2

\* the time between two frames, in ms: a fast display and a loaded scene
FastFrame == 8

SlowFrame == 17

(***************************************************************************)
(* Photo records.  A record is modelled by its id; NoId is a record whose  *)
(* id is missing (p.id falsy).                                             *)
(***************************************************************************)
NoId == 0

MaxId == MIN_SLOTS + Extra

PhotoIds == 1..MaxId

Range(a, b) == [i \in 1..(b - a + 1) |-> a + i - 1]

Injective(s) == \A i, j \in DOMAIN s : s[i] = s[j] => i = j

\* short lists: every sequence without repetition over NoId and ids 1..Few
ShortLists ==
    UNION { { s \in [1..n -> 0..Few] : Injective(s) } : n \in 0..MaxShort }

\* long lists: runs of consecutive ids that fill or exceed the minimum capacity
LongLists ==
    { Range(a, b) : a \in {1, MIN_SLOTS + 1}, b \in MIN_SLOTS..MaxId }
        \ { <<>> }

PhotoLists == ShortLists \cup { l \in LongLists : Len(l) > 0 }

PhotoCounts == {MIN_PHOTO_COUNT, DEFAULT_PHOTO_COUNT, MaxId}

\* the lists and photo counts of the scene: the empty list, the lists of one
\* record, one list of two in descending order, and the long lists
SceneLists ==
    { l \in PhotoLists : Len(l) <= 1 \/ Len(l) >= MIN_SLOTS } \cup { <<2, 1>> }

ScenePhotoCounts == {MIN_PHOTO_COUNT, DEFAULT_PHOTO_COUNT}

(***************************************************************************)
(* SlotManager (CollageScene.tsx)                                          *)
(***************************************************************************)
\* the photos prop taken as it is, without the filter
SafePhotosUnfiltered(photos) == photos

\* photos.filter(p => p && p.id)
SafePhotos(photos) == SelectSeq(photos, LAMBDA p : p # NoId)

IdsOf(photos) == { photos[i] : i \in DOMAIN photos }

\* the Map restricted to the ids in keep (Map.delete of the others)
Restrict(f, keep) == [k \in (DOMAIN f) \cap keep |-> f[k]]

\* rebuildAvailableSlots: the free indices of [0, totalSlots), ascending
rebuildAvailableSlots(sm) ==
    [sm EXCEPT !.availableSlots =
        SelectSeq([i \in 1..sm.totalSlots |-> i - 1],
                  LAMBDA s : s \notin sm.occupiedSlots)]

\* updateSlotCount(newTotal)
updateSlotCount(sm, newTotal) ==
    IF newTotal = sm.totalSlots
    THEN sm
    ELSE LET kept == { p \in DOMAIN sm.slotAssignments :
                          sm.slotAssignments[p] < newTotal }
             gone == { sm.slotAssignments[p] :
                          p \in (DOMAIN sm.slotAssignments) \ kept }
         IN  rebuildAvailableSlots(
                 [sm EXCEPT !.totalSlots = newTotal,
                            !.slotAssignments = Restrict(@, kept),
                            !.occupiedSlots = @ \ gone])

\* the loop "for (const photo of safePhotos)" of assignSlots: every id of the
\* list that has no mapping takes the head of availableSlots (shift) while
\* availableSlots is not empty.  The ids of a list are distinct, so the k-th
\* unmapped id of the list takes the k-th entry of availableSlots.
AssignLoop(sm, safePhotos) ==
    LET unmapped == SelectSeq(safePhotos,
                              LAMBDA id : id \notin DOMAIN sm.slotAssignments)
        n == IF Len(unmapped) < Len(sm.availableSlots)
             THEN Len(unmapped) ELSE Len(sm.availableSlots)
        taken == [k \in 1..n |-> sm.availableSlots[k]]
        fresh == { unmapped[k] : k \in 1..n }
        PosOf(id) == CHOOSE k \in 1..n : unmapped[k] = id
    IN  [sm EXCEPT
            !.availableSlots = SubSeq(@, n + 1, Len(@)),
            !.slotAssignments =
                [id \in (DOMAIN @) \cup fresh |->
                    IF id \in DOMAIN @ THEN @[id] ELSE taken[PosOf(id)]],
            !.occupiedSlots = @ \cup { taken[k] : k \in 1..n }]

\* RemoveStale without occupiedSlots.delete(slotIndex)
RemoveStaleKeepOccupied(sm, currentPhotoIds) ==
    [sm EXCEPT !.slotAssignments =
        Restrict(@, (DOMAIN sm.slotAssignments) \cap currentPhotoIds)]

\* the loop that deletes the mappings of ids no longer in the list
RemoveStale(sm, currentPhotoIds) ==
    LET kept == (DOMAIN sm.slotAssignments) \cap currentPhotoIds
        gone == { sm.slotAssignments[p] : p \in (DOMAIN sm.slotAssignments) \ kept }
    IN  [sm EXCEPT !.slotAssignments = Restrict(@, kept),
                   !.occupiedSlots = @ \ gone]

Max(a, b) == IF a > b THEN a ELSE b

\* the capacity assignSlots wants for a list
WantedSlots(safePhotos) == Max(Len(safePhotos) + SLOT_HEADROOM, MIN_SLOTS)

\* assignSlots(photos)
assignSlots(sm, photos) ==
    IF sm.assignmentLock
    THEN sm
    ELSE LET safePhotos == SafePhotos(photos)
             sized == updateSlotCount(sm, WantedSlots(safePhotos))
             pruned == RemoveStale(sized, IdsOf(safePhotos))
             assigned == AssignLoop(pruned, safePhotos)
         IN  rebuildAvailableSlots(assigned)

\* new SlotManager(totalSlots)
NewSlotManager(totalSlots) ==
    updateSlotCount([slotAssignments |-> <<>>,
                     occupiedSlots |-> {},
                     availableSlots |-> <<>>,
                     totalSlots |-> 0,
                     assignmentLock |-> FALSE], totalSlots)

(***************************************************************************)
(* Maps in insertion order (JavaScript Map): sequences of <<key, value>>   *)
(***************************************************************************)
MapKeys(m) == { m[i][1] : i \in DOMAIN m }

MapHas(m, k) == k \in MapKeys(m)

MapGet(m, k) == m[CHOOSE i \in DOMAIN m : m[i][1] = k][2]

\* Map.set: an existing key keeps its place
MapSet(m, k, v) ==
    IF MapHas(m, k)
    THEN [i \in DOMAIN m |-> IF m[i][1] = k THEN <<k, v>> ELSE m[i]]
    ELSE Append(m, <<k, v>>)

MapDelete(m, k) == SelectSeq(m, LAMBDA e : e[1] # k)

(***************************************************************************)
(* Patterns (BasePattern.tsx, GridPattern, FloatPattern, WavePattern,      *)
(* SpiralPattern).  A PatternState is recorded by the values its arrays    *)
(* are computed from; PositionAt and RotationAt give the entry of an index *)
(* as the term the code evaluates, trigonometry left uninterpreted.        *)
(***************************************************************************)
PatternTypes == {"grid", "float", "wave", "spiral"}

Min(a, b) == IF a < b THEN a ELSE b

Abs(x) == IF x < 0 THEN -x ELSE x

\* the time-driven phase of a pattern: every pattern reads time only when
\* settings.animationEnabled, as time * animationSpeed (up to a fixed factor)
AnimationPhase(settings, time) ==
    IF settings.animationEnabled THEN time * settings.animationSpeed ELSE 0

\* FloatPattern.generateDynamicBasePositions(totalPhotos, floorSize): the
\* cached scatter, or a new one; the scatter is recorded by the floor size and
\* count it was computed for
generateDynamicBasePositions(inst, totalPhotos, floorSize) ==
    IF /\ Abs(floorSize - inst.lastFloorSize) < 1
       /\ totalPhotos = inst.lastPhotoCount
       /\ inst.basePositions.count > 0
    THEN inst
    ELSE [inst EXCEPT !.lastFloorSize = floorSize,
                      !.lastPhotoCount = totalPhotos,
                      !.basePositions = [floor |-> floorSize, count |-> totalPhotos]]

\* rotations.push only in the animated branch of the loop body
RotationsPushedWhenAnimated(st, pushed) == IF st.animationEnabled THEN pushed ELSE 0

\* the length of rotations after the loop of generatePositionsInternal: an
\* iteration that pushes a position pushes one rotation in either branch of
\* if (this.settings.photoRotation); FloatPattern's continue skips both
RotationsPushed(st, pushed) == pushed

\* generatePositionsInternal(time) of the instance's class: the state and the
\* instance after the call (only FloatPattern changes its instance)
generatePositionsInternal(inst, time) ==
    LET st == inst.settings
        totalPhotos == Min(st.photoCount, MAX_PHOTOS)
        floorSize == IF st.floorSize = 0 THEN DEFAULT_FLOOR_SIZE ELSE st.floorSize
        after == IF inst.class = "float"
                 THEN generateDynamicBasePositions(inst, totalPhotos, floorSize)
                 ELSE inst
        shape == CASE inst.class = "grid" -> <<totalPhotos, st.photoSize>>
                   [] inst.class = "wave" -> <<totalPhotos, st.photoSize>>
                   [] inst.class = "float" ->
                        <<after.basePositions.count, after.basePositions.floor>>
                   [] OTHER -> <<0, 0>>
        pushed == IF inst.class = "float"
                  THEN Min(totalPhotos, after.basePositions.count)
                  ELSE totalPhotos
    IN  [state |-> [pattern |-> inst.class,
                    length |-> pushed,
                    rotations |-> RotationsPushed(st, pushed),
                    phase |-> AnimationPhase(st, time),
                    shape |-> shape],
         inst |-> after]

Undefined == [pattern |-> "undefined", index |-> 0, phase |-> 0, shape |-> <<0, 0>>]

\* [0, 0, 0]
Zero == [pattern |-> "zero", index |-> 0, phase |-> 0, shape |-> <<0, 0>>]

\* the fallback grid of updatePositions: [(i % 10) * 5 - 25, 0, floor(i / 10) * 5 - 25];
\* shape holds x and z
FallbackPosition(i) ==
    [pattern |-> "fallback", index |-> i, phase |-> 0,
     shape |-> <<(i % 10) * 5 - 25, (i \div 10) * 5 - 25>>]

\* the patternState of the catch block of updatePositions
FallbackState(count) ==
    [pattern |-> "fallback", length |-> count, rotations |-> count, phase |-> 0,
     shape |-> <<0, 0>>]

\* patternState.positions[i]
PositionAt(state, i) ==
    IF i < state.length
    THEN IF state.pattern = "fallback"
         THEN FallbackPosition(i)
         ELSE [pattern |-> state.pattern, index |-> i,
               phase |-> state.phase, shape |-> state.shape]
    ELSE Undefined

\* patternState.rotations[i]
RotationAt(state, i) ==
    IF i < state.rotations
    THEN IF state.pattern = "fallback"
         THEN Zero
         ELSE [pattern |-> state.pattern, index |-> i,
               phase |-> state.phase, shape |-> <<0, 0>>]
    ELSE Undefined

\* x || [0, 0, 0]
OrZero(x) == IF x = Undefined THEN Zero ELSE x

\* BasePattern.getCacheKey(time): Math.floor(time * 60) / 60 and the settings
\* that are part of the key
getCacheKey(inst, time) ==
    <<inst.settings.animationPattern,
      (time * TIME_GRANULARITY) \div TicksPerSecond,
      inst.settings.photoCount,
      inst.settings.animationSpeed,
      inst.settings.floorSize>>

\* BasePattern.generatePositions without the removal of the oldest entry
generatePositionsNoEviction(inst, time, now) ==
    LET cacheKey == getCacheKey(inst, time)
        hit == /\ MapHas(inst.positionCache, cacheKey)
               /\ MapHas(inst.cacheTimestamps, cacheKey)
               /\ MapGet(inst.cacheTimestamps, cacheKey) # 0
               /\ (now - MapGet(inst.cacheTimestamps, cacheKey)) * 100
                      < CACHE_DURATION_X100
    IN  IF hit
        THEN [state |-> MapGet(inst.positionCache, cacheKey), inst |-> inst]
        ELSE LET g == generatePositionsInternal(inst, time)
             IN  [state |-> g.state,
                  inst |-> [g.inst EXCEPT
                              !.positionCache = MapSet(@, cacheKey, g.state),
                              !.cacheTimestamps = MapSet(@, cacheKey, now)]]

\* BasePattern.generatePositions(time) at wall-clock time now
generatePositions(inst, time, now) ==
    LET cacheKey == getCacheKey(inst, time)
        hit == /\ MapHas(inst.positionCache, cacheKey)
               /\ MapHas(inst.cacheTimestamps, cacheKey)
               /\ MapGet(inst.cacheTimestamps, cacheKey) # 0
               /\ (now - MapGet(inst.cacheTimestamps, cacheKey)) * 100
                      < CACHE_DURATION_X100
    IN  IF hit
        THEN [state |-> MapGet(inst.positionCache, cacheKey), inst |-> inst]
        ELSE LET g == generatePositionsInternal(inst, time)
                 stored == [g.inst EXCEPT
                              !.positionCache = MapSet(@, cacheKey, g.state),
                              !.cacheTimestamps = MapSet(@, cacheKey, now)]
                 oldestKey == stored.positionCache[1][1]
             IN  [state |-> g.state,
                  inst |-> IF Len(stored.positionCache) > POSITION_CACHE_MAX
                           THEN [stored EXCEPT
                                   !.positionCache = MapDelete(@, oldestKey),
                                   !.cacheTimestamps = MapDelete(@, oldestKey)]
                           ELSE stored]

\* BasePattern.updateSettings without the two clear() calls
BaseUpdateSettingsKeepCache(inst, newSettings) ==
    [inst EXCEPT !.settings = newSettings]

\* BasePattern.updateSettings(newSettings)
BaseUpdateSettings(inst, newSettings) ==
    [inst EXCEPT !.settings = newSettings,
                 !.positionCache = <<>>,
                 !.cacheTimestamps = <<>>]

NoBasePositions == [floor |-> 0, count |-> 0]

\* FloatPattern.updateSettings that keeps the scatter and takes it for the
\* scatter of the new settings
updateSettingsKeepScatter(inst, newSettings) ==
    BaseUpdateSettings(
        [inst EXCEPT
            !.lastFloorSize = IF newSettings.floorSize = 0
                              THEN DEFAULT_FLOOR_SIZE ELSE newSettings.floorSize,
            !.lastPhotoCount = Min(newSettings.photoCount, MAX_PHOTOS)],
        newSettings)

\* updateSettings(newSettings) of the instance's class (FloatPattern overrides)
updateSettings(inst, newSettings) ==
    IF /\ inst.class = "float"
       /\ \/ inst.settings.floorSize # newSettings.floorSize
          \/ inst.settings.photoCount # newSettings.photoCount
    THEN BaseUpdateSettings([inst EXCEPT !.basePositions = NoBasePositions,
                                         !.lastFloorSize = 0,
                                         !.lastPhotoCount = 0], newSettings)
    ELSE BaseUpdateSettings(inst, newSettings)

\* new GridPattern(settings), new FloatPattern(settings), ...
NewPattern(class, settings) ==
    [class |-> class,
     settings |-> settings,
     positionCache |-> <<>>,
     cacheTimestamps |-> <<>>,
     basePositions |-> NoBasePositions,
     lastFloorSize |-> 0,
     lastPhotoCount |-> 0]

(***************************************************************************)
(* PatternFactory (PatternFactory.tsx)                                     *)
(***************************************************************************)
\* the switch of createPattern without its default case
ClassOfNoFallback(patternType) == patternType

\* the switch of createPattern: an unknown type falls back to GridPattern
ClassOf(patternType) ==
    IF patternType \in PatternTypes THEN patternType ELSE "grid"

\* createPattern that returns a cached instance without updateSettings
createPatternKeepSettings(instances, patternType, settings) ==
    LET cacheKey == <<patternType, settings.photoCount>>
    IN  IF MapHas(instances, cacheKey)
        THEN [pattern |-> MapGet(instances, cacheKey), key |-> cacheKey,
              instances |-> instances]
        ELSE LET pattern == NewPattern(ClassOf(patternType), settings)
             IN  [pattern |-> pattern, key |-> cacheKey,
                  instances |-> MapSet(instances, cacheKey, pattern)]

\* createPattern without the cleanup of a cache that has grown too large
createPatternNoCleanup(instances, patternType, settings) ==
    LET cacheKey == <<patternType, settings.photoCount>>
    IN  IF MapHas(instances, cacheKey)
        THEN LET existing == updateSettings(MapGet(instances, cacheKey), settings)
             IN  [pattern |-> existing, key |-> cacheKey,
                  instances |-> MapSet(instances, cacheKey, existing)]
        ELSE LET pattern == NewPattern(ClassOf(patternType), settings)
             IN  [pattern |-> pattern, key |-> cacheKey,
                  instances |-> MapSet(instances, cacheKey, pattern)]

\* PatternFactory.createPattern(patternType, settings): the instance returned,
\* its cache key and the instance cache after the call
createPattern(instances, patternType, settings) ==
    LET cacheKey == <<patternType, settings.photoCount>>
    IN  IF MapHas(instances, cacheKey)
        THEN LET existing == updateSettings(MapGet(instances, cacheKey), settings)
             IN  [pattern |-> existing, key |-> cacheKey,
                  instances |-> MapSet(instances, cacheKey, existing)]
        ELSE LET pattern == NewPattern(ClassOf(patternType), settings)
                 cached == MapSet(instances, cacheKey, pattern)
             IN  [pattern |-> pattern, key |-> cacheKey,
                  instances |-> IF Len(cached) > FACTORY_CACHE_MAX
                                THEN <<>> ELSE cached]

(***************************************************************************)
(* State                                                                   *)
(***************************************************************************)
VARIABLES
    photos,               \* the photos prop of AnimationController
    settings,             \* the settings prop (SceneSettings)
    slotManager,          \* slotManagerRef.current
    lastCall,             \* the last SlotManager method called
    patternInstances,     \* PatternFactory.patternInstances
    now,                  \* performance.now(), in ms
    frameTime,            \* the time argument of the last position update
    photosWithPositions,  \* SceneContent state, set through onPositionsUpdate
    pattern,              \* a pattern instance used on its own
    patternCall,          \* its last generatePositions call: the time, the
                          \* settings, whether the cache answered, the result
    userInteractingRef,   \* CameraController: userInteractingRef.current
    interactionTimeoutRef, \* interactionTimeoutRef.current: a timer id, or null
    lastInteractionTimeRef, \* lastInteractionTimeRef.current
    timers,               \* the pending setTimeout timers: id -> due time
    clock,                \* Date.now(), in ms
    pointers,             \* the pointers that are down on the OrbitControls
    interacting,          \* a 'start' event with no 'end' event after it
    camera,               \* camera.position and controls.target
    stateRef,             \* CameraMovementSystem: stateRef.current
    frameWrites,          \* who wrote the camera in the last frame, in order
    frameBranch,          \* the branch CameraMovementSystem.useFrame took in it
    photoMesh,            \* a PhotoMesh: its target props, currentPosition and
                          \* currentRotation, and the values before its last frame
    cameraPath,           \* a pattern camera path: its pattern and settings, the
                          \* point of the cycle of its last frame, what it wrote
    factoryCall,          \* the last PatternFactory.createPattern call: its
                          \* arguments, the instance returned, what was cached
    frameFailure,         \* what threw in the last position update, or "none"
    frameLoop             \* the AnimationController in the browser's frame loop:
                          \* mounted or not, its refs, the animation-frame
                          \* callbacks that are pending

vars == <<photos, settings, slotManager, lastCall, patternInstances, now,
          frameTime, photosWithPositions, pattern, patternCall,
          userInteractingRef, interactionTimeoutRef, lastInteractionTimeRef,
          timers, clock, pointers,
          interacting, camera, stateRef, frameWrites,
                   frameBranch,
          photoMesh, cameraPath, factoryCall, frameFailure, frameLoop>>

cameraVars == <<userInteractingRef, interactionTimeoutRef,
                lastInteractionTimeRef, timers, clock,
                pointers, interacting, camera, stateRef, frameWrites,
                   frameBranch>>

meshVars == <<photoMesh>>

pathVars == <<cameraPath, factoryCall, frameFailure, frameLoop>>

sceneVars == <<photos, settings, slotManager, lastCall, patternInstances,
               frameTime, photosWithPositions>>

\* settings.photoCount || 100
EffectivePhotoCount(n) == IF n = 0 THEN DEFAULT_PHOTO_COUNT ELSE n

\* the patterns whose camera option the settings panel is used on
CameraPatterns == {"grid", "float"}

InitialSettings(p, n) ==
    [animationPattern |-> p,
     photoCount |-> n,
     animationSpeed |-> 50,
     animationEnabled |-> TRUE,
     floorSize |-> DEFAULT_FLOOR_SIZE,
     photoSize |-> 4,
     cameraEnabled |-> TRUE,
     cameraRotationEnabled |-> FALSE,
     cameraRotationSpeed |-> 0,
     patterns |-> [q \in CameraPatterns |-> [cameraMovementEnabled |-> FALSE]]]

\* interactionTimeoutRef.current = null
NoTimer == 0

\* the pattern the collage is opened with; "cube" is not a pattern type
InitialPatterns == {"grid", "float", "cube"}

\* value || fallback
OrDefault(value, fallback) == IF value = 0 THEN fallback ELSE value

(***************************************************************************)
(* The camera paths (CameraMovementSystem.tsx)                             *)
(*                                                                         *)
(* Angles are counted in fortieths of a turn, the values of Math.sin and   *)
(* the coordinates in thousandths.  A cycle is sampled at the fortieths of *)
(* its duration at which every angle of a path is a whole number of units; *)
(* CycleEnd is the last frame of a cycle taken at its limit: the frame     *)
(* after it has time % cycleDuration back at 0.                            *)
(***************************************************************************)
\* Math.PI * 2
TurnUnits == 40

\* Math.sin over the first quarter turn
SinTable == <<0, 156, 309, 454, 588, 707, 809, 891, 951, 988, 1000>>

\* the value 1 of Math.sin
TrigScale == SinTable[Len(SinTable)]

\* Math.sin
Sin(a) ==
    LET r == a % TurnUnits
        half == TurnUnits \div 2
        quarter == TurnUnits \div 4
    IN  IF r <= quarter THEN SinTable[r + 1]
        ELSE IF r <= half THEN SinTable[half - r + 1]
        ELSE IF r <= half + quarter THEN 0 - SinTable[r - half + 1]
        ELSE 0 - SinTable[TurnUnits - r + 1]

\* Math.cos
Cos(a) == Sin(a + TurnUnits \div 4)

\* time % cycleDuration at the end of a cycle, in fortieths of cycleDuration
CycleEnd == TurnUnits

\* Math.sqrt(a * a + b * b), a and b in thousandths, to a hundredth
Hypot(a, b) ==
    LET x == Abs(a) \div 10
        y == Abs(b) \div 10
        n == x * x + y * y
    IN  10 * (CHOOSE k \in Max(x, y)..(x + y) : k * k <= n /\ n < (k + 1) * (k + 1))

\* Math.ceil(a / b)
CeilDiv(a, b) == (a + b - 1) \div b

\* Math.ceil(Math.sqrt(num / den))
CeilSqrt(num, den) ==
    CHOOSE k \in 0..CeilDiv(num, den) :
        /\ k * k * den >= num
        /\ (k = 0 \/ (k - 1) * (k - 1) * den < num)

\* settings.cameraDistance || 25
BaseDistance(s) == OrDefault(s.cameraDistance, 25)

\* updateFloatCamera: its first segment (cycleTime < 0.2) and the last branch
\* of its backwards journey (reversedPhase <= 0.5); the radii are in tenths
updateFloatCamera(s, cycleTime) ==
    LET intensity == OrDefault(s.cameraFloatIntensity, 1)
        baseDistance == BaseDistance(s)
        height == OrDefault(s.cameraHeight, 10) * TrigScale
    IN  IF cycleTime * 5 < TurnUnits
        THEN LET phase == cycleTime * 5
                 wideRadius == baseDistance * (20 + intensity * 5)
                 orbitAngle == (phase * 15) \div 10
             IN  [position |-> <<(Cos(orbitAngle) * wideRadius) \div 10,
                                 height + Sin(phase * 2) * (20 * intensity),
                                 (Sin(orbitAngle) * wideRadius) \div 10>>,
                  target |-> <<0, 0, 0>>]
        ELSE LET phase == (CycleEnd - cycleTime) * 8
                 extraWideRadius == baseDistance * (25 + intensity * 8)
                 orbitAngle == (phase * 8) \div 10
             IN  [position |-> <<(Cos(0 - orbitAngle) * extraWideRadius) \div 10,
                                 height + Sin((phase * 3) \div 10) * (25 * intensity),
                                 (Sin(0 - orbitAngle) * extraWideRadius) \div 10>>,
                  target |-> <<0, 0, 0>>]

updateWaveCamera(s, cycleTime) ==
    LET amplitude == OrDefault(s.cameraWaveAmplitude, 1)
        phase == cycleTime
        waveAngle == phase * 2
        radius == BaseDistance(s)
        baseHeight == OrDefault(s.cameraHeight, 10) * TrigScale
        waveY == Sin((phase * 12) \div 10) * (4 * amplitude)
    IN  [position |-> <<Cos(waveAngle) * radius, baseHeight + waveY,
                        Sin(waveAngle) * radius>>,
         target |-> <<0, 0, 0>>]

\* cameraOrbitSpeed is counted in tenths
updateSpiralCamera(s, cycleTime) ==
    LET orbitSpeed == OrDefault(s.cameraOrbitSpeed, 10)
        orbitRadius == OrDefault(s.cameraOrbitRadius, 20)
        direction == IF s.cameraOrbitDirection = "counterclockwise" THEN 0 - 1 ELSE 1
        phase == cycleTime
        orbitAngle == ((phase * 5 * orbitSpeed) \div 10) * direction
        zoomCycle == (Sin(phase) * 3) \div 10 + (7 * TrigScale) \div 10
        currentRadius == orbitRadius * zoomCycle
        baseHeight == OrDefault(s.cameraHeight, 10) * TrigScale
        heightWave == Sin(phase * 2) * 8 + Sin(phase * 3) * 3
    IN  [position |-> <<(Cos(orbitAngle) * currentRadius) \div TrigScale,
                        IF s.cameraHeightVariation THEN baseHeight + heightWave
                                                   ELSE baseHeight,
                        (Sin(orbitAngle) * currentRadius) \div TrigScale>>,
         target |-> <<Sin(phase) * 2, (Cos((phase * 15) \div 10) * 15) \div 10, 0>>]

\* updateGridCamera: the first frame of the opening wide shot, the middle of
\* the transition between the sides, and the forced return (cycleTime > 0.98)
updateGridCamera(s, cycleTime) ==
    LET wallHeight == s.wallHeight * TrigScale
        photoCount == OrDefault(s.photoCount, 50)
        columns == CeilSqrt(photoCount * 177778, 100000)
        rows == CeilDiv(photoCount, columns)
        photoSize == OrDefault(s.photoSize, 6) * TrigScale
        actualSpacing == photoSize
        wallWidth == columns * actualSpacing
        wallTotalHeight == rows * actualSpacing
        wallDiagonal == Hypot(wallWidth, wallTotalHeight)
        wallScale == Max(wallWidth, wallTotalHeight)
        wideDistance == Max(Max((wallDiagonal * 8) \div 10, (wallScale * 12) \div 10),
                            (BaseDistance(s) * TrigScale * 15) \div 10)
        floatRange == (Min(wallWidth, wallTotalHeight) * 15) \div 100
        middleLevel == wallHeight + wallTotalHeight \div 2
        startPosition == <<0, middleLevel, 0 - wideDistance>>
        startLookAt == <<0, middleLevel, 0>>
    IN  IF cycleTime * 100 > 48 * CycleEnd /\ cycleTime * 100 < 52 * CycleEnd
        THEN LET transitionPhase == ((cycleTime * 100 - 48 * CycleEnd) * (TurnUnits \div 2))
                                        \div (4 * CycleEnd)
                 smoothTransition == (TrigScale - Cos(transitionPhase)) \div 2
                 arc == (smoothTransition * (TurnUnits \div 2)) \div TrigScale
             IN  [position |-> <<(Sin(arc) * floatRange) \div TrigScale,
                                 middleLevel + (wallTotalHeight * 2) \div 10
                                     + (Sin(arc) * ((wallTotalHeight * 15) \div 100))
                                           \div TrigScale,
                                 (0 - wideDistance)
                                     + (2 * wideDistance * smoothTransition) \div TrigScale>>,
                  target |-> <<0, middleLevel, 0>>]
        ELSE IF cycleTime * 100 > 98 * CycleEnd
        THEN [position |-> startPosition, target |-> startLookAt]
        ELSE LET widePhase == 0
             IN  [position |-> <<(Sin(widePhase * 2) * floatRange) \div TrigScale,
                                 middleLevel + (Sin(widePhase * 3)
                                                  * (wallTotalHeight \div 10)) \div TrigScale,
                                 0 - wideDistance>>,
                  target |-> <<(Sin(widePhase) * (wallWidth \div 10)) \div TrigScale,
                               middleLevel, 0>>]

PathPatterns == {"float", "wave", "spiral", "grid"}

\* the switch of CameraMovementSystem's useFrame
PathAt(p, s, cycleTime) ==
    CASE p = "float" -> updateFloatCamera(s, cycleTime)
      [] p = "wave" -> updateWaveCamera(s, cycleTime)
      [] p = "spiral" -> updateSpiralCamera(s, cycleTime)
      [] p = "grid" -> updateGridCamera(s, cycleTime)

\* the frames of a cycle that are sampled
CyclePoints(p) ==
    CASE p = "float" -> {0, 2, 4, 6, 30, 35, CycleEnd}
      [] p = "wave" -> {0, 10, 20, 30, CycleEnd}
      [] p = "spiral" -> {0, 10, 20, 30, CycleEnd}
      [] p = "grid" -> {0, 20, CycleEnd}

\* the settings a path reads, 0 for a setting that is not set
UnsetPathSettings ==
    [cameraDistance |-> 0, cameraHeight |-> 0, wallHeight |-> 0, photoCount |-> 0,
     photoSize |-> 0, cameraFloatIntensity |-> 0, cameraWaveAmplitude |-> 0,
     cameraOrbitSpeed |-> 0, cameraOrbitRadius |-> 0,
     cameraHeightVariation |-> TRUE, cameraOrbitDirection |-> "clockwise"]

PathSettings(p) ==
    CASE p = "float" ->
           {[UnsetPathSettings EXCEPT !.cameraDistance = d, !.cameraHeight = h,
                                      !.cameraFloatIntensity = i] :
                d \in {0, 15}, h \in {0, 5}, i \in {0, 1, 2}}
      [] p = "wave" ->
           {[UnsetPathSettings EXCEPT !.cameraDistance = d, !.cameraHeight = h,
                                      !.cameraWaveAmplitude = a] :
                d \in {0, 15}, h \in {0, 5}, a \in {0, 1, 2}}
      [] p = "spiral" ->
           {[UnsetPathSettings EXCEPT !.cameraOrbitSpeed = v, !.cameraOrbitRadius = r,
                                      !.cameraHeightVariation = hv,
                                      !.cameraOrbitDirection = dir] :
                v \in {0, 5, 20}, r \in {0, 10}, hv \in BOOLEAN,
                dir \in {"clockwise", "counterclockwise"}}
      [] p = "grid" ->
           {[UnsetPathSettings EXCEPT !.cameraDistance = d, !.wallHeight = w,
                                      !.photoCount = n, !.photoSize = z] :
                d \in {0, 15}, w \in {0, 5}, n \in {0, 100}, z \in {0, 4}}

NewCameraPath(p, s) ==
    [pattern |-> p, settings |-> s, cycleTime |-> 0, pose |-> PathAt(p, s, 0)]

\* before the first frame of the pattern camera
InitialCameraPath == NewCameraPath("wave", UnsetPathSettings)

\* the component after its mount: lastUpdateTime = 0 lies further back than
\* the throttle, no callback has been requested
NewFrameLoop ==
    [mounted |-> TRUE,
     elapsed |-> SlowFrame,          \* performance.now() - lastUpdateTime.current
     positionUpdateFrame |-> 0,      \* positionUpdateFrame.current, 0 for null
     animationFrameRef |-> 0,        \* animationFrameRef.current, 0 for null
     callbacks |-> <<>>,             \* the animation-frame callbacks requested
     handle |-> 0,                   \* the last handle requestAnimationFrame gave
     delivered |-> FALSE]            \* onPositionsUpdate was called for these props

\* before the first createPattern call
NoFactoryCall(st) ==
    [called |-> FALSE, patternType |-> "", settings |-> st, created |-> FALSE,
     repeated |-> FALSE, before |-> NewPattern("grid", st),
     returned |-> NewPattern("grid", st),
     state |-> generatePositionsInternal(NewPattern("grid", st), 0).state]

\* useRef(new THREE.Vector3(...photo.targetPosition)), useRef(new THREE.Euler(...))
NewPhotoMesh(targetPosition, targetRotation) ==
    [targetPosition |-> targetPosition,
     targetRotation |-> targetRotation,
     currentPosition |-> targetPosition,
     currentRotation |-> targetRotation,
     stepped |-> FALSE,
     previousPosition |-> targetPosition,
     previousRotation |-> targetRotation]

Init ==
    /\ photos = <<>>
    /\ \E p \in InitialPatterns, n \in ScenePhotoCounts :
           settings = InitialSettings(p, n)
    /\ slotManager = NewSlotManager(EffectivePhotoCount(settings.photoCount))
    /\ lastCall = "constructor"
    /\ patternInstances = <<>>
    /\ now = 1
    /\ frameTime = 0
    /\ photosWithPositions = <<>>
    /\ pattern = NewPattern(ClassOf(settings.animationPattern), settings)
    /\ patternCall = [time |-> 0, settings |-> settings, hit |-> FALSE,
                       state |-> generatePositionsInternal(pattern, 0).state]
    /\ userInteractingRef = FALSE
    /\ interactionTimeoutRef = NoTimer
    /\ lastInteractionTimeRef = 0
    /\ timers = [id \in {} |-> 0]
    /\ clock = 0
    /\ pointers = 0
    /\ interacting = FALSE
    /\ camera = [position |-> [path |-> <<"initial", 0>>, orbit |-> 0],
                 target |-> <<"initial", 0>>]
    /\ stateRef = [time |-> 0]
    /\ frameWrites = <<>>
    /\ frameBranch = "none"
    /\ photoMesh = NewPhotoMesh(0, 0)
    /\ cameraPath = InitialCameraPath
    /\ factoryCall = NoFactoryCall(settings)
    /\ frameFailure = "none"
    /\ frameLoop = NewFrameLoop

(***************************************************************************)
(* AnimationController (CollageScene.tsx)                                  *)
(***************************************************************************)
\* useEffect [settings.photoCount]: updateSlotCount(settings.photoCount || 100)
PhotoCountEffect(n) ==
    /\ n # settings.photoCount
    /\ settings' = [settings EXCEPT !.photoCount = n]
    /\ slotManager' = updateSlotCount(slotManager, EffectivePhotoCount(n))
    /\ lastCall' = "updateSlotCount"
    /\ UNCHANGED <<photos, patternInstances, now, frameTime, photosWithPositions,
                   pattern, patternCall, cameraVars, meshVars, pathVars>>

\* useEffect [currentPhotoIds, photos]: assignSlots(safePhotos)
PhotosEffect(list) ==
    /\ photos' = list
    /\ slotManager' = assignSlots(slotManager, SafePhotos(list))
    /\ lastCall' = "assignSlots"
    /\ UNCHANGED <<settings, patternInstances, now, frameTime, photosWithPositions,
                   pattern, patternCall, cameraVars, meshVars, pathVars>>

\* `placeholder-${i}`
PlaceholderId(i) == -(i + 1)

\* the entries updatePositions builds: the photos that have a slot below
\* photoCount, in list order, then a placeholder for every other slot
ComposeFrame(safePhotos, slotAssignments, patternState, count) ==
    LET shown == SelectSeq(safePhotos,
                     LAMBDA id : /\ id \in DOMAIN slotAssignments
                                 /\ slotAssignments[id] < count)
        taken == { slotAssignments[shown[k]] : k \in DOMAIN shown }
        empty == SelectSeq([i \in 1..count |-> i - 1], LAMBDA i : i \notin taken)
    IN  [k \in DOMAIN shown |->
            [id |-> shown[k],
             targetPosition |-> OrZero(PositionAt(patternState, slotAssignments[shown[k]])),
             targetRotation |-> OrZero(RotationAt(patternState, slotAssignments[shown[k]])),
             slotIndex |-> slotAssignments[shown[k]]]]
        \o
        [k \in DOMAIN empty |->
            [id |-> PlaceholderId(empty[k]),
             targetPosition |-> OrZero(PositionAt(patternState, empty[k])),
             targetRotation |-> OrZero(RotationAt(patternState, empty[k])),
             slotIndex |-> empty[k]]]

\* settings.animationPattern || 'grid'
RequestedPattern(st) == IF st.animationPattern = "" THEN "grid" ELSE st.animationPattern

\* a position update whose catch block swallows the failure and delivers
\* nothing
PositionUpdateNoFallback(sm0, list, st, time, failure) ==
    LET safePhotos == SafePhotos(list)
        sm == assignSlots(sm0, safePhotos)
        made == createPattern(patternInstances, RequestedPattern(st), st)
        gen == generatePositions(made.pattern, time, now)
    IN  /\ photos' = list
        /\ settings' = st
        /\ slotManager' = sm
        /\ lastCall' = "assignSlots"
        /\ patternInstances' =
               CASE failure = "createPattern" -> patternInstances
                 [] failure = "generatePositions" -> made.instances
                 [] OTHER -> IF MapHas(made.instances, made.key)
                             THEN MapSet(made.instances, made.key, gen.inst)
                             ELSE made.instances
        /\ frameTime' = time
        /\ photosWithPositions' =
               IF failure = "none"
               THEN ComposeFrame(safePhotos, sm.slotAssignments, gen.state,
                                 EffectivePhotoCount(st.photoCount))
               ELSE photosWithPositions
        /\ frameFailure' = failure
        /\ UNCHANGED <<now, pattern, patternCall, cameraVars, meshVars,
                       cameraPath, factoryCall, frameLoop>>

\* the callback updatePositions hands to requestAnimationFrame, run with the
\* time useFrame computed, on the SlotManager sm and the props list and st;
\* failure tells whether createPattern or generatePositions throws in it: a
\* createPattern that throws has not changed the factory, a generatePositions
\* that throws has not changed the instance
PositionUpdateCore(sm0, list, st, time, failure) ==
    LET safePhotos == SafePhotos(list)
        sm == assignSlots(sm0, safePhotos)
        made == createPattern(patternInstances, RequestedPattern(st), st)
        gen == generatePositions(made.pattern, time, now)
        patternState == IF failure = "none"
                        THEN gen.state
                        ELSE FallbackState(EffectivePhotoCount(st.photoCount))
    IN  /\ slotManager' = sm
        /\ lastCall' = "assignSlots"
        /\ patternInstances' =
               CASE failure = "createPattern" -> patternInstances
                 [] failure = "generatePositions" -> made.instances
                 [] OTHER -> IF MapHas(made.instances, made.key)
                             THEN MapSet(made.instances, made.key, gen.inst)
                             ELSE made.instances
        /\ photosWithPositions' =
               ComposeFrame(safePhotos, sm.slotAssignments, patternState,
                            EffectivePhotoCount(st.photoCount))
        /\ frameFailure' = failure

\* the callback run in the frame that requested it, with the props of that frame
PositionUpdateEffects(sm0, list, st, time, failure) ==
    /\ PositionUpdateCore(sm0, list, st, time, failure)
    /\ photos' = list
    /\ settings' = st
    /\ frameTime' = time
    /\ UNCHANGED <<now, pattern, patternCall, cameraVars, meshVars,
                   cameraPath, factoryCall>>

\* the callback run on its own, outside the schedule of the frame loop
PositionUpdateWith(sm0, list, st, time, failure) ==
    /\ PositionUpdateEffects(sm0, list, st, time, failure)
    /\ UNCHANGED frameLoop

\* a position update in which nothing throws
PositionUpdate(sm0, list, st, time) == PositionUpdateWith(sm0, list, st, time, "none")

\* useFrame: time = animationEnabled ? clock.elapsedTime * speed / 50 : 0;
\* clock.elapsedTime never decreases
FrameTimes ==
    IF settings.animationEnabled
    THEN { t \in {frameTime, frameTime + 1} : t <= MaxFrameTime }
    ELSE {0}

\* the photo lists of the scheduled scene
ScheduleLists == { <<>>, <<1>>, <<2, 1>> }

InitSchedule ==
    /\ Init
    /\ settings.photoCount = MIN_PHOTO_COUNT

\* a frame with unchanged props
Frame(time) == PositionUpdate(slotManager, photos, settings, time)

Failures == {"createPattern", "generatePositions"}

\* a frame with unchanged props in which the pattern throws
FailedFrame(time, failure) ==
    PositionUpdateWith(slotManager, photos, settings, time, failure)

\* the feed delivers a new photo list: the photos effect, then the next frame
PhotosChange(list, time) ==
    PositionUpdate(assignSlots(slotManager, SafePhotos(list)), list, settings, time)

\* settings.photoCount changes: the photoCount effect, then the next frame
PhotoCountChange(n, time) ==
    /\ n # settings.photoCount
    /\ PositionUpdate(updateSlotCount(slotManager, EffectivePhotoCount(n)),
                      photos, [settings EXCEPT !.photoCount = n], time)

(***************************************************************************)
(* The schedule of the position updates (AnimationController)              *)
(*                                                                         *)
(* A frame of the browser runs the animation-frame callbacks that were     *)
(* requested before it, in the order of the requests.  The render loop was *)
(* requested before the callback of updatePositions, which is requested    *)
(* from inside it, so RenderFrame comes first and RunCallback runs what it *)
(* has left.                                                               *)
(***************************************************************************)
FrameIntervals == {FastFrame, SlowFrame}

\* cancelAnimationFrame(handle)
cancelAnimationFrame(callbacks, handle) ==
    SelectSeq(callbacks, LAMBDA c : c.handle # handle)

\* updatePositions without the cancelAnimationFrame of the pending callback
updatePositionsNoCancel(loop, list, st, time, interval) ==
    LET elapsed == loop.elapsed + interval
    IN  IF elapsed * 100 < THROTTLE_X100
        THEN [loop EXCEPT !.elapsed = elapsed]
        ELSE [loop EXCEPT
                !.elapsed = 0,
                !.handle = (@ % MaxHandle) + 1,
                !.positionUpdateFrame = (loop.handle % MaxHandle) + 1,
                !.callbacks = Append(@,
                    [handle |-> (loop.handle % MaxHandle) + 1, due |-> FALSE,
                     photos |-> list, settings |-> st, time |-> time])]

\* updatePositions(time), called interval ms after the call before: the
\* throttle, the cancel of the pending callback, the request of a new one
\* that closes over the photos and settings of this render
updatePositions(loop, list, st, time, interval) ==
    LET elapsed == loop.elapsed + interval
        kept == IF loop.positionUpdateFrame # 0
                THEN cancelAnimationFrame(loop.callbacks, loop.positionUpdateFrame)
                ELSE loop.callbacks
    IN  IF elapsed * 100 < THROTTLE_X100
        THEN [loop EXCEPT !.elapsed = elapsed]
        ELSE [loop EXCEPT
                !.elapsed = 0,
                !.handle = (@ % MaxHandle) + 1,
                !.positionUpdateFrame = (loop.handle % MaxHandle) + 1,
                !.callbacks = Append(kept,
                    [handle |-> (loop.handle % MaxHandle) + 1, due |-> FALSE,
                     photos |-> list, settings |-> st, time |-> time])]

\* the callbacks requested before a frame are due in it
MarkDue(callbacks) == [k \in DOMAIN callbacks |-> [callbacks[k] EXCEPT !.due = TRUE]]

DueCallbacks(callbacks) == SelectSeq(callbacks, LAMBDA c : c.due)

scheduleRestVars == <<sceneVars, now, pattern, patternCall, cameraVars, meshVars,
                      cameraPath, factoryCall, frameFailure>>

\* a frame of the browser begins: the render loop runs useFrame, which calls
\* updatePositions while the component is mounted
RenderFrame(interval, time) ==
    /\ DueCallbacks(frameLoop.callbacks) = <<>>
    /\ frameLoop' =
           IF frameLoop.mounted
           THEN updatePositions([frameLoop EXCEPT !.callbacks = MarkDue(@)],
                                photos, settings, time, interval)
           ELSE [frameLoop EXCEPT !.callbacks = MarkDue(@)]
    /\ frameTime' = IF frameLoop.mounted THEN time ELSE frameTime
    /\ UNCHANGED <<photos, settings, slotManager, lastCall, patternInstances,
                   photosWithPositions, now, pattern, patternCall, cameraVars,
                   meshVars, cameraPath, factoryCall, frameFailure>>

\* the frame goes on with the first callback that is due: it works on the
\* photos and settings it closed over
RunCallback ==
    /\ DueCallbacks(frameLoop.callbacks) # <<>>
    /\ LET c == DueCallbacks(frameLoop.callbacks)[1]
       IN  /\ PositionUpdateCore(slotManager, c.photos, c.settings, c.time, "none")
           /\ frameLoop' = [frameLoop EXCEPT
                               !.callbacks = cancelAnimationFrame(@, c.handle),
                               !.delivered = (c.photos = photos
                                               /\ c.settings = settings)]
    /\ UNCHANGED <<photos, settings, frameTime, now, pattern, patternCall,
                   cameraVars, meshVars, cameraPath, factoryCall>>

\* the photos prop changes while the component is mounted: the photos effect
ScheduledPhotosChange(list) ==
    /\ frameLoop.mounted
    /\ list # photos
    /\ photos' = list
    /\ slotManager' = assignSlots(slotManager, SafePhotos(list))
    /\ lastCall' = "assignSlots"
    /\ frameLoop' = [frameLoop EXCEPT !.delivered = FALSE]
    /\ UNCHANGED <<settings, patternInstances, frameTime, photosWithPositions,
                   now, pattern, patternCall, cameraVars, meshVars, cameraPath,
                   factoryCall, frameFailure>>

\* the cleanup of the component: cancelAnimationFrame(animationFrameRef.current)
UnmountCleanup(loop) ==
    [loop EXCEPT !.mounted = FALSE,
                 !.callbacks = IF loop.animationFrameRef # 0
                               THEN cancelAnimationFrame(@, loop.animationFrameRef)
                               ELSE @]

\* the scene unmounts
Unmount ==
    /\ frameLoop.mounted
    /\ frameLoop' = UnmountCleanup(frameLoop)
    /\ UNCHANGED scheduleRestVars

(***************************************************************************)
(* A pattern instance on its own (BasePattern.tsx)                         *)
(***************************************************************************)
PatternSettings ==
    { [settings EXCEPT !.animationEnabled = e, !.photoSize = z] :
          e \in BOOLEAN, z \in {4, 5} }

GeneratePositionsCall(time) ==
    LET gen == generatePositions(pattern, time, now)
    IN  /\ pattern' = gen.inst
        /\ patternCall' = [time |-> time, settings |-> pattern.settings,
                           hit |-> (gen.inst = pattern), state |-> gen.state]
        /\ UNCHANGED <<sceneVars, now, cameraVars, meshVars, pathVars>>

UpdateSettingsCall(newSettings) ==
    /\ pattern' = updateSettings(pattern, newSettings)
    /\ UNCHANGED <<sceneVars, now, patternCall, cameraVars, meshVars, pathVars>>

\* the floor sizes (0: not set) and photo counts a FloatPattern is used with
ScatterSettings ==
    { [settings EXCEPT !.animationPattern = "float", !.floorSize = f,
                       !.photoCount = n, !.animationEnabled = e] :
          f \in {0, DEFAULT_FLOOR_SIZE \div 2, DEFAULT_FLOOR_SIZE},
          n \in {MIN_PHOTO_COUNT, DEFAULT_PHOTO_COUNT, MAX_PHOTOS + DEFAULT_PHOTO_COUNT},
          e \in BOOLEAN }

\* new FloatPattern(settings): another instance takes the place of the first
NewFloatPattern(s) ==
    /\ pattern' = NewPattern("float", s)
    /\ UNCHANGED <<sceneVars, now, patternCall, cameraVars, meshVars, pathVars>>

\* new GridPattern(settings), new FloatPattern(settings), ... of createPattern:
\* another instance takes the place of the first
NewPatternInstance(p, s) ==
    /\ pattern' = NewPattern(ClassOf(p), [s EXCEPT !.animationPattern = p])
    /\ UNCHANGED <<sceneVars, now, patternCall, cameraVars, meshVars, pathVars>>

\* the wall clock advances
Tick ==
    /\ now < MaxNow
    /\ now' = now + 1
    /\ UNCHANGED <<sceneVars, pattern, patternCall, cameraVars, meshVars, pathVars>>

(***************************************************************************)
(* CameraController (CollageScene.tsx), CameraMovementSystem               *)
(***************************************************************************)
cameraSceneVars == <<photos, slotManager, lastCall, patternInstances, now,
                     frameTime, photosWithPositions, pattern, patternCall>>

TimerIds == 1..MaxTimers

\* clearTimeout(id)
clearTimeout(pending, id) == Restrict(pending, (DOMAIN pending) \ {id})

\* setTimeout(callback, delay): the lowest unused id stands for the new timer
setTimeout(pending, id, due) ==
    [k \in (DOMAIN pending) \cup {id} |-> IF k = id THEN due ELSE pending[k]]

\* OrbitControls dispatches 'start' with fewer than maxPointers pointers
\* down: handleStart
handleStart(maxPointers) ==
    /\ settings.cameraEnabled
    /\ pointers < maxPointers
    /\ pointers' = pointers + 1
    /\ interacting' = TRUE
    /\ userInteractingRef' = TRUE
    /\ timers' = IF interactionTimeoutRef # NoTimer
                 THEN clearTimeout(timers, interactionTimeoutRef)
                 ELSE timers
    /\ interactionTimeoutRef' = NoTimer
    /\ lastInteractionTimeRef' = clock
    /\ UNCHANGED <<cameraSceneVars, meshVars, pathVars, settings, clock, camera, stateRef, frameWrites,
                   frameBranch>>

ControlsStart == handleStart(MaxPointers)

\* OrbitControls dispatches 'end': handleEnd, its timer taking an id of ids
handleEnd(ids) ==
    /\ pointers > 0
    /\ ids \ DOMAIN timers # {}
    /\ LET id == CHOOSE k \in ids \ DOMAIN timers :
                     \A j \in ids \ DOMAIN timers : k <= j
       IN  /\ timers' = setTimeout(timers, id, clock + QUIET_PERIOD)
           /\ interactionTimeoutRef' = id
    /\ lastInteractionTimeRef' = clock
    /\ pointers' = pointers - 1
    /\ interacting' = FALSE
    /\ UNCHANGED <<cameraSceneVars, meshVars, pathVars, settings, clock, camera, stateRef, frameWrites,
                   frameBranch,
                   userInteractingRef>>

ControlsEnd == handleEnd(TimerIds)

\* the callback of a timer handleEnd has set runs
ResumeTimer(id) ==
    /\ id \in DOMAIN timers
    /\ clock >= timers[id]
    /\ timers' = clearTimeout(timers, id)
    /\ userInteractingRef' = FALSE
    /\ UNCHANGED <<cameraSceneVars, meshVars, pathVars, settings, clock, pointers, interacting,
                   interactionTimeoutRef,
                   lastInteractionTimeRef, camera, stateRef, frameWrites,
                   frameBranch>>

\* time passes
Elapse ==
    /\ clock < MaxElapses * ClockStep
    /\ clock' = clock + ClockStep
    /\ UNCHANGED <<cameraSceneVars, meshVars, pathVars, settings, userInteractingRef, timers, pointers,
                   interacting, interactionTimeoutRef,
                   lastInteractionTimeRef, camera, stateRef, frameWrites,
                   frameBranch>>

\* useEffect [settings.cameraRotationEnabled, settings.animationPattern], run
\* with the new settings st
ResetEffect(st) ==
    userInteractingRef' = IF st.cameraRotationEnabled THEN FALSE ELSE userInteractingRef

cameraRestVars == <<cameraSceneVars, meshVars, pathVars, timers, clock, pointers, interacting,
                    interactionTimeoutRef,
                   lastInteractionTimeRef, camera, stateRef, frameWrites,
                   frameBranch>>

SetCameraEnabled(b) ==
    /\ b # settings.cameraEnabled
    /\ settings' = [settings EXCEPT !.cameraEnabled = b]
    /\ UNCHANGED <<cameraRestVars, userInteractingRef>>

SetCameraRotationEnabled(b) ==
    /\ b # settings.cameraRotationEnabled
    /\ settings' = [settings EXCEPT !.cameraRotationEnabled = b]
    /\ ResetEffect(settings')
    /\ UNCHANGED cameraRestVars

\* a pattern switch that restarts the camera time
SetAnimationPatternResetTime(p) ==
    /\ p # settings.animationPattern
    /\ settings' = [settings EXCEPT !.animationPattern = p]
    /\ ResetEffect(settings')
    /\ stateRef' = [stateRef EXCEPT !.time = 0]
    /\ UNCHANGED <<cameraSceneVars, meshVars, pathVars, timers, clock, pointers,
                   interacting, interactionTimeoutRef, lastInteractionTimeRef,
                   camera, frameWrites, frameBranch>>

SetAnimationPattern(p) ==
    /\ p # settings.animationPattern
    /\ settings' = [settings EXCEPT !.animationPattern = p]
    /\ ResetEffect(settings')
    /\ UNCHANGED cameraRestVars

SetPatternCamera(p, b) ==
    /\ b # settings.patterns[p].cameraMovementEnabled
    /\ settings' = [settings EXCEPT !.patterns[p].cameraMovementEnabled = b]
    /\ UNCHANGED <<cameraRestVars, userInteractingRef>>

CameraSpeeds == {0, 40}

SetCameraRotationSpeed(v) ==
    /\ v # settings.cameraRotationSpeed
    /\ settings' = [settings EXCEPT !.cameraRotationSpeed = v]
    /\ UNCHANGED <<cameraRestVars, userInteractingRef>>

\* settings.patterns[pattern]?.cameraMovementEnabled
isPatternCameraEnabled(st) ==
    /\ st.animationPattern \in DOMAIN st.patterns
    /\ st.patterns[st.animationPattern].cameraMovementEnabled

\* spherical.theta += speed * delta; the radius and phi stay
Rotate(cam, step) == [cam EXCEPT !.position.orbit = @ + step]

\* handleGlobalCameraRotation(state, delta)
handleGlobalCameraRotation(cam, st, delta) ==
    Rotate(cam, OrDefault(st.cameraRotationSpeed, GLOBAL_ROTATION_SPEED) * delta)

\* the switch of CameraMovementSystem.useFrame: the update function of the
\* pattern sets camera.position and controls.target to the point of its path
updatePatternCamera(st, time) ==
    LET path == IF st.animationPattern \in {"float", "wave", "spiral", "grid"}
                THEN st.animationPattern ELSE "default"
    IN  [position |-> [path |-> <<path, time>>, orbit |-> 0],
         target |-> <<path, time>>]

\* CameraMovementSystem.useFrame that falls through to the pattern path when
\* the pattern camera is off
CameraMovementSystemFrameNoHold(cam, ref, st, userInteracting, delta) ==
    IF ~st.cameraEnabled \/ userInteracting
    THEN [camera |-> cam, stateRef |-> ref, writes |-> <<>>, branch |-> "manual"]
    ELSE IF ~isPatternCameraEnabled(st) /\ st.cameraRotationEnabled
    THEN [camera |-> handleGlobalCameraRotation(cam, st, delta),
          stateRef |-> ref, writes |-> <<"globalRotation">>,
          branch |-> "globalRotation"]
    ELSE [camera |-> updatePatternCamera(st, ref.time + delta),
          stateRef |-> [ref EXCEPT !.time = @ + delta],
          writes |-> <<"pattern">>, branch |-> "pattern"]

\* CameraMovementSystem.useFrame
CameraMovementSystemFrame(cam, ref, st, userInteracting, delta) ==
    IF ~st.cameraEnabled \/ userInteracting
    THEN [camera |-> cam, stateRef |-> ref, writes |-> <<>>, branch |-> "manual"]
    ELSE IF ~isPatternCameraEnabled(st) /\ st.cameraRotationEnabled
    THEN [camera |-> handleGlobalCameraRotation(cam, st, delta),
          stateRef |-> ref, writes |-> <<"globalRotation">>,
          branch |-> "globalRotation"]
    ELSE IF ~isPatternCameraEnabled(st)
    THEN [camera |-> cam, stateRef |-> ref, writes |-> <<>>, branch |-> "hold"]
    ELSE LET time == ref.time
                       + delta * (OrDefault(st.cameraRotationSpeed, PATH_SPEED) \div 2)
         IN  [camera |-> updatePatternCamera(st, time),
              stateRef |-> [ref EXCEPT !.time = time],
              writes |-> <<"pattern">>, branch |-> "pattern"]

\* CameraController.useFrame: regular auto rotation
CameraControllerFrame(cam, st, userInteracting, delta) ==
    IF st.cameraRotationEnabled /\ ~userInteracting /\ st.cameraEnabled
    THEN [camera |-> Rotate(cam, OrDefault(st.cameraRotationSpeed, AUTO_ROTATION_SPEED) * delta),
          writes |-> <<"autoRotation">>]
    ELSE [camera |-> cam, writes |-> <<>>]

\* one frame: the useFrame of CameraMovementSystem, the child, then the one of
\* CameraController
CameraFrame(delta) ==
    /\ camera.position.orbit <= MaxOrbit
    /\ stateRef.time <= MaxCameraTime
    /\ LET moved == CameraMovementSystemFrame(camera, stateRef, settings,
                                              userInteractingRef, delta)
           turned == CameraControllerFrame(moved.camera, settings,
                                           userInteractingRef, delta)
       IN  /\ camera' = turned.camera
           /\ stateRef' = moved.stateRef
           /\ frameWrites' = moved.writes \o turned.writes
           /\ frameBranch' = moved.branch
    /\ UNCHANGED <<cameraSceneVars, meshVars, pathVars, settings, userInteractingRef, timers, clock,
                   pointers, interacting, interactionTimeoutRef,
                   lastInteractionTimeRef>>

(***************************************************************************)
(* PhotoMesh (CollageScene.tsx): the smoothing of one slot, along the line *)
(* from the current position to the target.  Coordinates and angles are    *)
(* integers in units of 1 / MeshScale, so that MaxBlends blends are exact. *)
(***************************************************************************)
MeshScale == POSITION_SMOOTHING_DIVISOR ^ MaxBlends

\* the target positions and rotations the frame output hands to a PhotoMesh
MeshPositions == { c * MeshScale : c \in {0, 10, TELEPORT_THRESHOLD, TELEPORT_THRESHOLD + 10} }

MeshRotations == { c * MeshScale : c \in {0, 3} }

\* currentPosition.current.distanceTo(targetPosition)
distanceTo(a, b) == Abs(a - b)

\* the smoothing step that never teleports
SmoothingStepNoTeleport(mesh) ==
    [mesh EXCEPT
       !.currentPosition = @ + (mesh.targetPosition - @) \div POSITION_SMOOTHING_DIVISOR,
       !.currentRotation = @ + (mesh.targetRotation - @) \div ROTATION_SMOOTHING_DIVISOR]

\* the second useFrame of PhotoMesh
SmoothingStep(mesh) ==
    IF distanceTo(mesh.currentPosition, mesh.targetPosition) > TELEPORT_THRESHOLD * MeshScale
    THEN [mesh EXCEPT !.currentPosition = mesh.targetPosition,
                      !.currentRotation = mesh.targetRotation]
    ELSE [mesh EXCEPT
            !.currentPosition = @ + (mesh.targetPosition - @) \div POSITION_SMOOTHING_DIVISOR,
            !.currentRotation = @ + (mesh.targetRotation - @) \div ROTATION_SMOOTHING_DIVISOR]

meshRestVars == <<sceneVars, now, pattern, patternCall, cameraVars, pathVars>>

\* a frame of the PhotoMesh; the blend is exact
PhotoMeshFrame ==
    /\ (photoMesh.targetPosition - photoMesh.currentPosition)
           % POSITION_SMOOTHING_DIVISOR = 0
    /\ (photoMesh.targetRotation - photoMesh.currentRotation)
           % ROTATION_SMOOTHING_DIVISOR = 0
    /\ photoMesh' = [SmoothingStep(photoMesh) EXCEPT
                        !.stepped = TRUE,
                        !.previousPosition = photoMesh.currentPosition,
                        !.previousRotation = photoMesh.currentRotation]
    /\ UNCHANGED meshRestVars

\* the frame output gives the slot a new target
PhotoMeshTarget(targetPosition, targetRotation) ==
    /\ <<targetPosition, targetRotation>>
           # <<photoMesh.targetPosition, photoMesh.targetRotation>>
    /\ photoMesh' = [photoMesh EXCEPT !.targetPosition = targetPosition,
                                      !.targetRotation = targetRotation,
                                      !.stepped = FALSE]
    /\ UNCHANGED meshRestVars

\* the PhotoMesh of a slot is mounted with its first target
PhotoMeshMount(targetPosition, targetRotation) ==
    /\ photoMesh' = NewPhotoMesh(targetPosition, targetRotation)
    /\ UNCHANGED meshRestVars

\* the camera path of CameraMovementSystem on its own
pathRestVars == <<sceneVars, now, pattern, patternCall, cameraVars, meshVars,
                  factoryCall, frameFailure, frameLoop>>

\* the settings prop changes: the pattern and the tuning of its camera path
PathSettingsChange(p, s) ==
    /\ cameraPath' = [cameraPath EXCEPT
                         !.pattern = p, !.settings = s, !.cycleTime = 0,
                         !.pose = PathAt(p, s, 0)]
    /\ UNCHANGED pathRestVars

\* a frame of the pattern camera at a sampled point of the cycle
PathFrame(cycleTime) ==
    /\ cycleTime \in CyclePoints(cameraPath.pattern)
    /\ cycleTime # cameraPath.cycleTime
    /\ cameraPath' = [cameraPath EXCEPT
                         !.cycleTime = cycleTime,
                         !.pose = PathAt(cameraPath.pattern, cameraPath.settings,
                                         cycleTime)]
    /\ UNCHANGED pathRestVars

(***************************************************************************)
(* PatternFactory on its own (PatternFactory.tsx)                          *)
(***************************************************************************)
\* the number of photoCount values the factory is called with
FactoryCounts == 5

\* the pattern types the factory is called with; "cube" is not a pattern type
FactoryPatterns == <<"grid", "float", "wave", "spiral", "cube">>

\* the values of the photoCount slider the factory is called with
FactoryPhotoCount(j) == MIN_PHOTO_COUNT * (j + 1)

\* the cache keys in the order of the slider and of the pattern menu
FactoryKeys == FactoryCounts * Len(FactoryPatterns)

FactoryKey(k) ==
    <<FactoryPatterns[((k - 1) % Len(FactoryPatterns)) + 1],
      FactoryPhotoCount((k - 1) \div Len(FactoryPatterns))>>

\* the place of the last call in that order, 0 before the first call
FactoryPlace ==
    IF factoryCall.called
    THEN CHOOSE k \in 1..FactoryKeys :
             FactoryKey(k) = <<factoryCall.patternType, factoryCall.settings.photoCount>>
    ELSE 0

\* the animationSpeed slider is moved up only
FactorySpeeds == {50, 60}

\* the settings that decide the geometry of a pattern
Structural(st) == <<st.photoCount, st.floorSize>>

factoryRestVars == <<photos, settings, slotManager, lastCall, now, frameTime,
                     photosWithPositions, pattern, patternCall, cameraVars,
                     meshVars, cameraPath, frameFailure, frameLoop>>

\* updatePositions on the factory: createPattern(patternType, st), then
\* generatePositions on the instance returned
FactoryCall(patternType, st) ==
    LET made == createPattern(patternInstances, patternType, st)
        cached == MapHas(patternInstances, made.key)
        gen == generatePositions(made.pattern, 0, now)
    IN  /\ patternInstances' = IF MapHas(made.instances, made.key)
                               THEN MapSet(made.instances, made.key, gen.inst)
                               ELSE made.instances
        /\ factoryCall' =
               [called |-> TRUE, patternType |-> patternType, settings |-> st,
                created |-> ~cached,
                repeated |-> /\ factoryCall.called
                             /\ factoryCall.patternType = patternType
                             /\ Structural(factoryCall.settings) = Structural(st),
                before |-> IF cached THEN MapGet(patternInstances, made.key)
                                     ELSE made.pattern,
                returned |-> made.pattern,
                state |-> gen.state]
        /\ UNCHANGED factoryRestVars

\* the calls: the same key again, or the next one
FactoryStep(k, v) ==
    /\ k \in 1..FactoryKeys
    /\ k - FactoryPlace \in {0, 1}
    /\ v >= factoryCall.settings.animationSpeed
    /\ FactoryCall(FactoryKey(k)[1],
                   [settings EXCEPT !.animationPattern = FactoryKey(k)[1],
                                    !.photoCount = FactoryKey(k)[2],
                                    !.animationSpeed = v])

(***************************************************************************)
(* Specifications                                                          *)
(***************************************************************************)
\* the scene: every change of the props is followed by a frame
Next ==
    \/ \E t \in FrameTimes : Frame(t)
    \/ \E list \in SceneLists, t \in FrameTimes : PhotosChange(list, t)
    \/ \E n \in ScenePhotoCounts, t \in FrameTimes : PhotoCountChange(n, t)

Spec == Init /\ [][Next]_vars

\* the scene with frames in which the pattern throws
NextFallback ==
    \/ \E t \in FrameTimes : Frame(t)
    \/ \E list \in SceneLists, t \in FrameTimes : PhotosChange(list, t)
    \/ \E t \in FrameTimes, f \in Failures : FailedFrame(t, f)

SpecFallback == Init /\ [][NextFallback]_vars

\* the component in the frame loop of the browser, until and after its unmount
NextSchedule ==
    \/ \E i \in FrameIntervals, t \in FrameTimes : RenderFrame(i, t)
    \/ RunCallback
    \/ \E list \in ScheduleLists : ScheduledPhotosChange(list)
    \/ Unmount

SpecSchedule == InitSchedule /\ [][NextSchedule]_vars

\* the mounted component while frames keep being rendered: the render loop
\* requests its next frame in every frame, and the browser runs every
\* animation-frame callback that is due and not cancelled
NextDelivery ==
    \/ \E i \in FrameIntervals, t \in FrameTimes : RenderFrame(i, t)
    \/ RunCallback
    \/ \E list \in ScheduleLists : ScheduledPhotosChange(list)

InitDelivery ==
    /\ InitSchedule
    /\ settings.animationPattern = "grid"

SpecDelivery ==
    /\ InitDelivery
    /\ [][NextDelivery]_vars
    /\ WF_vars(\E i \in FrameIntervals, t \in FrameTimes : RenderFrame(i, t))
    /\ WF_vars(RunCallback)

\* the least number of photos for which assignSlots wants more than MIN_SLOTS
OverMinimum == MIN_SLOTS - SLOT_HEADROOM + 1

\* photo lists with records that have no id, short ones and ones long enough
\* for the capacity to depend on their length
MalformedLists ==
    { <<>>, <<NoId>>, <<1>>, <<NoId, 1>>, <<1, NoId, 2>>, <<2, 1>>,
      Range(1, OverMinimum),
      <<NoId>> \o Range(1, OverMinimum),
      Range(1, OverMinimum) \o <<NoId>>,
      Range(1, OverMinimum - 1) \o <<NoId>> }

\* the scene fed with such lists
NextMalformed ==
    \/ \E t \in FrameTimes : Frame(t)
    \/ \E list \in MalformedLists, t \in FrameTimes : PhotosChange(list, t)

SpecMalformed == Init /\ [][NextMalformed]_vars

\* the SlotManager under every interleaving of the calls of the two effects
NextSlots ==
    \/ \E n \in PhotoCounts : PhotoCountEffect(n)
    \/ \E list \in PhotoLists : PhotosEffect(list)

SpecSlots == Init /\ [][NextSlots]_vars

NextPattern ==
    \/ \E t \in 0..MaxTime : GeneratePositionsCall(t)
    \/ \E s \in PatternSettings : UpdateSettingsCall(s)
    \/ Tick

SpecPattern == Init /\ [][NextPattern]_vars

\* one instance asked for consecutive 1/60 s buckets of the animation time,
\* as the frames of a running animation ask, until its cache has been full
\* for CacheExtra calls; its settings are replaced at any point
BucketTicks == TicksPerSecond \div TIME_GRANULARITY

MaxCacheTime == BucketTicks * (POSITION_CACHE_MAX + CacheExtra)

CacheSettings == { [settings EXCEPT !.animationEnabled = e] : e \in BOOLEAN }

CacheCall(t) ==
    /\ t \in {patternCall.time, patternCall.time + BucketTicks}
    /\ GeneratePositionsCall(t)

NextCache ==
    \/ \E t \in 0..MaxCacheTime : CacheCall(t)
    \/ \E s \in CacheSettings : UpdateSettingsCall(s)

InitCache ==
    /\ Init
    /\ settings.animationPattern = "grid"
    /\ settings.photoCount = MIN_PHOTO_COUNT

SpecCache == InitCache /\ [][NextCache]_vars

\* the photo counts, floor sizes and animation switches the four patterns
\* are used with
LengthSettings ==
    { [settings EXCEPT !.photoCount = n, !.floorSize = f, !.animationEnabled = e] :
          n \in {MIN_PHOTO_COUNT, MAX_PHOTOS, MAX_PHOTOS + DEFAULT_PHOTO_COUNT},
          f \in {0, DEFAULT_FLOOR_SIZE},
          e \in BOOLEAN }

\* an instance of each of the four patterns under every sequence of
\* generatePositions and updateSettings calls
NextLengths ==
    \/ \E t \in {0, MaxTime} : GeneratePositionsCall(t)
    \/ \E s \in LengthSettings :
           UpdateSettingsCall([s EXCEPT !.animationPattern =
                                            pattern.settings.animationPattern])
    \/ \E p \in PatternTypes, s \in LengthSettings : NewPatternInstance(p, s)

InitLengths ==
    /\ Init
    /\ settings.animationPattern \in PatternTypes

SpecLengths == InitLengths /\ [][NextLengths]_vars

\* FloatPattern instances under every sequence of generatePositions and
\* updateSettings calls
NextScatter ==
    \/ \E t \in 0..MaxTime : GeneratePositionsCall(t)
    \/ \E s \in ScatterSettings : UpdateSettingsCall(s)
    \/ \E s \in ScatterSettings : NewFloatPattern(s)
    \/ Tick

InitScatter ==
    /\ Init
    /\ settings.animationPattern = "float"
    /\ settings.photoCount = DEFAULT_PHOTO_COUNT

SpecScatter == InitScatter /\ [][NextScatter]_vars

\* the camera under every interleaving of the controls' events, the timers,
\* the settings changes and the frames
NextCamera ==
    \/ ControlsStart
    \/ ControlsEnd
    \/ \E id \in TimerIds : ResumeTimer(id)
    \/ Elapse
    \/ \E b \in BOOLEAN : SetCameraEnabled(b)
    \/ \E b \in BOOLEAN : SetCameraRotationEnabled(b)
    \/ \E p \in CameraPatterns : SetAnimationPattern(p)
    \/ \E p \in CameraPatterns, b \in BOOLEAN : SetPatternCamera(p, b)
    \/ \E v \in CameraSpeeds : SetCameraRotationSpeed(v)
    \/ CameraFrame(1)

InitCamera ==
    /\ Init
    /\ settings.photoCount = DEFAULT_PHOTO_COUNT
    /\ settings.animationPattern \in CameraPatterns

SpecCamera == InitCamera /\ [][NextCamera]_vars

\* the listeners of CameraController alone, under the events of one more
\* pointer (a second finger) and one more pending timer than SpecCamera has
InteractionPointers == MaxPointers + 1

InteractionTimerIds == 1..(MaxTimers + 1)

NextInteraction ==
    \/ handleStart(InteractionPointers)
    \/ handleEnd(InteractionTimerIds)
    \/ \E id \in InteractionTimerIds : ResumeTimer(id)
    \/ Elapse

SpecInteraction == InitCamera /\ [][NextInteraction]_vars

\* one PhotoMesh under every sequence of targets and frames
NextMesh ==
    \/ PhotoMeshFrame
    \/ \E t \in MeshPositions, r \in MeshRotations : PhotoMeshTarget(t, r)
    \/ \E t \in MeshPositions, r \in MeshRotations : PhotoMeshMount(t, r)

SpecMesh == InitCamera /\ [][NextMesh]_vars

\* one camera path under every choice of its settings and sampled frames
NextPath ==
    \/ \E p \in PathPatterns : \E s \in PathSettings(p) : PathSettingsChange(p, s)
    \/ \E k \in 0..CycleEnd : PathFrame(k)

SpecPath == InitCamera /\ [][NextPath]_vars

\* the factory under the calls a walk over its cache keys makes
NextFactory == \E k \in 1..FactoryKeys, v \in FactorySpeeds : FactoryStep(k, v)

InitFactory ==
    /\ InitCamera
    /\ settings.animationPattern = "grid"

SpecFactory == InitFactory /\ [][NextFactory]_vars

(***************************************************************************)
(* Properties                                                              *)
(***************************************************************************)
\* slotAssignments.get(id), -1 standing for undefined
SlotOf(sm, id) ==
    IF id \in DOMAIN sm.slotAssignments THEN sm.slotAssignments[id] ELSE -1

LiveIds(list) == IdsOf(SafePhotos(list))

\* C1: between two consecutive assignSlots calls, a photo id that is in the
\* lists of both calls keeps its slot index: it is neither changed nor dropped.
C1_SlotStable ==
    [][(lastCall = "assignSlots" /\ lastCall' = "assignSlots")
          => \A id \in LiveIds(photos) \cap LiveIds(photos') :
                 SlotOf(slotManager', id) = SlotOf(slotManager, id)]_vars

\* C2: after every updateSlotCount and assignSlots call no two ids share a
\* slot, every mapped slot lies in [0, totalSlots), occupiedSlots is the set of
\* mapped slots, and at most totalSlots slots are occupied.
C2_SlotInvariants ==
    LET f == slotManager.slotAssignments
    IN  /\ \A a, b \in DOMAIN f : f[a] = f[b] => a = b
        /\ \A a \in DOMAIN f : f[a] \in 0..(slotManager.totalSlots - 1)
        /\ slotManager.occupiedSlots = { f[a] : a \in DOMAIN f }
        /\ Cardinality(slotManager.occupiedSlots) <= slotManager.totalSlots

\* an updateSlotCount call has just evicted photos and others keep their slots
C2_Witness ==
    /\ lastCall = "updateSlotCount"
    /\ Cardinality(DOMAIN slotManager.slotAssignments) >= 2
    /\ Cardinality(DOMAIN slotManager.slotAssignments) < Len(SafePhotos(photos))

\* C3: after every assignSlots(photos) call every photo of the list that has
\* an id is mapped to a slot.
C3_EveryLivePhotoMapped ==
    lastCall = "assignSlots"
        => LiveIds(photos) \subseteq DOMAIN slotManager.slotAssignments

\* the two-phase reconciliation: the mappings of ids not in the list are
\* removed and their slots are free again; then the k-th unmapped id of the
\* list takes the k-th lowest free slot
Reconciled(sm, list) ==
    LET safePhotos == SafePhotos(list)
        sized == updateSlotCount(sm, WantedSlots(safePhotos))
        kept == Restrict(sized.slotAssignments, IdsOf(safePhotos))
        free == SelectSeq([i \in 1..sized.totalSlots |-> i - 1],
                          LAMBDA i : i \notin { kept[a] : a \in DOMAIN kept })
        unmapped == SelectSeq(safePhotos, LAMBDA id : id \notin DOMAIN kept)
        n == Min(Len(unmapped), Len(free))
    IN  [id \in (DOMAIN kept) \cup { unmapped[k] : k \in 1..n } |->
            IF id \in DOMAIN kept
            THEN kept[id]
            ELSE free[CHOOSE k \in 1..n : unmapped[k] = id]]

\* C4: an assignSlots call first frees the slots of the ids no longer in the
\* list and then gives each unmapped id, in list order, the lowest slot that is
\* free at that moment, the slots freed in the same call included.
C4_LowestFreeSlot ==
    [][lastCall' = "assignSlots"
          => slotManager'.slotAssignments = Reconciled(slotManager, photos')]_vars

\* C5: assignSlots(L) called again right after assignSlots(L) changes nothing
\* of the SlotManager.
C5_Idempotent ==
    [][(lastCall = "assignSlots" /\ lastCall' = "assignSlots" /\ photos' = photos)
          => slotManager' = slotManager]_vars

\* the photo ids of the occupied entries of the frame output
OccupiedIds == { photosWithPositions[k].id : k \in DOMAIN photosWithPositions } \ 
                   { PlaceholderId(i) : i \in 0..MAX_PHOTOS }

\* a position update has been delivered
Delivered == lastCall = "assignSlots"

\* C6: in a frame with k live photos and k <= photoCount, exactly those k ids
\* occupy entries of the output and the other photoCount - k entries are
\* placeholders.
C6_LivePhotosShown ==
    (Delivered /\ Len(SafePhotos(photos)) <= EffectivePhotoCount(settings.photoCount))
        => /\ OccupiedIds = LiveIds(photos)
           /\ Len(photosWithPositions) = EffectivePhotoCount(settings.photoCount)

\* the state the pattern of the current settings computes for a time, on a
\* new instance: no cache is involved
Uncached(st, time) ==
    generatePositionsInternal(NewPattern(ClassOf(RequestedPattern(st)), st), time).state

\* C7: every frame output has exactly photoCount entries, one for each slot
\* index in [0, photoCount), and the entry of slot i carries the pattern's
\* position and rotation for index i, for photos and placeholders alike.
C7_OneEntryPerSlot ==
    Delivered =>
        LET count == EffectivePhotoCount(settings.photoCount)
            out == photosWithPositions
            state == Uncached(settings, frameTime)
        IN  /\ Len(out) = count
            /\ \A i \in 0..(count - 1) :
                   Cardinality({ k \in DOMAIN out : out[k].slotIndex = i }) = 1
            /\ \A k \in DOMAIN out :
                   /\ out[k].targetPosition = PositionAt(state, out[k].slotIndex)
                   /\ out[k].targetRotation = RotationAt(state, out[k].slotIndex)

\* a frame of the float pattern at a later time of the same cache bucket,
\* with photos and placeholders in the output
C7_Witness ==
    /\ Delivered
    /\ settings.animationPattern = "float"
    /\ frameTime = 1
    /\ \E k \in DOMAIN photosWithPositions : photosWithPositions[k].id > 0
    /\ \E k \in DOMAIN photosWithPositions : photosWithPositions[k].id < 0

Bucket(time) == (time * TIME_GRANULARITY) \div TicksPerSecond

C9_ManualMeansNoAutomaticWrite ==
    [][(~settings.cameraEnabled \/ interacting) => camera' = camera]_vars

\* C10: in a frame where the camera is enabled, the user is not interacting
\* and the camera option of the active pattern is on, the pattern path is the
\* only writer of the camera: no rotation step runs, whatever
\* cameraRotationEnabled is.
C10_PatternCameraOnly ==
    [][(/\ settings.cameraEnabled
        /\ ~interacting
        /\ isPatternCameraEnabled(settings)
        /\ camera' # camera)
          => frameWrites' = <<"pattern">>]_vars

\* C11: the manual-interaction flag is cleared only when no 'start' has come
\* after the last 'end' and the quiet period has elapsed since that 'end'; a
\* pattern switch, a settings change or an older timer never clears it earlier.
C11_ClearedOnlyAfterQuietPeriod ==
    [][(userInteractingRef /\ ~userInteractingRef')
          => /\ ~interacting
             /\ clock >= lastInteractionTimeRef + QUIET_PERIOD]_vars

\* C12: in a frame (delta = 1) where the camera is enabled, the user is not
\* interacting, the pattern camera is off and cameraRotationEnabled is true,
\* the azimuth advances by exactly cameraRotationSpeed * delta, one orbit
\* step, and nothing else of the camera changes.
C12_OneOrbitStep ==
    [][(/\ settings.cameraEnabled
        /\ ~interacting
        /\ ~userInteractingRef
        /\ ~isPatternCameraEnabled(settings)
        /\ settings.cameraRotationEnabled
        /\ camera' # camera)
          => camera' = Rotate(camera,
                 OrDefault(settings.cameraRotationSpeed, AUTO_ROTATION_SPEED) * 1)]_vars

\* C13: in a frame where the camera is enabled, the user is not interacting,
\* the pattern camera is off and cameraRotationEnabled is false, no automatic
\* component changes the camera position, the look-at target or the
\* accumulated camera time.
C13_HoldChangesNothing ==
    [][(/\ settings.cameraEnabled
        /\ ~interacting
        /\ ~isPatternCameraEnabled(settings)
        /\ ~settings.cameraRotationEnabled)
          => (camera' = camera /\ stateRef' = stateRef)]_vars

\* a frame took the hold branch after the camera had been moved along a
\* pattern path and by the orbit
C13_Witness ==
    /\ frameBranch = "hold"
    /\ frameWrites = <<>>
    /\ camera.position.path[1] # "initial"
    /\ camera.position.orbit > 0
    /\ stateRef.time > 0

\* the raw target of the pattern path in the frame that has just run
RawPathTarget == updatePatternCamera(settings, stateRef'.time)

\* the camera teleport threshold, on path points: a point of another path
\* (the initial pose, the path of the pattern left by a switch) is beyond it;
\* the points of one path that are one frame apart are within it
BeyondCameraTeleport(position, raw) == position.path[1] # raw.position.path[1]

\* C14: in a frame in which the pattern path moves the camera, the position
\* and target written are the output of the smoothing step: the raw path value
\* itself only when it is beyond the teleport threshold, a blend from the
\* current value otherwise.
C14_SmoothedCameraWrite ==
    [][(/\ camera' # camera
        /\ frameBranch' = "pattern"
        /\ camera'.position.path = RawPathTarget.position.path
        /\ camera'.target = RawPathTarget.target)
          => BeyondCameraTeleport(camera.position, RawPathTarget)]_vars

StrictlyBetween(a, x, b) == (a < x /\ x < b) \/ (b < x /\ x < a)

\* the position distance before the last step was beyond the threshold
LastStepTeleport ==
    distanceTo(photoMesh.previousPosition, photoMesh.targetPosition)
        > TELEPORT_THRESHOLD * MeshScale

SeamTolerance == 100

Near(a, b) == \A i \in DOMAIN a : Abs(a[i] - b[i]) <= SeamTolerance

\* the path joins itself: what the last frame of a cycle wrote is what the
\* first frame of the next cycle writes
SeamJoins(path) ==
    LET start == PathAt(path.pattern, path.settings, 0)
    IN  /\ Near(path.pose.position, start.position)
        /\ Near(path.pose.target, start.target)

\* C16: for each pattern camera path (float, wave, spiral, grid) and every
\* value of its tuning settings, the camera position and the look-at target
\* at the end of a cycle equal those at phase 0, so that the path has no jump
\* at the seam of the cycle.
C16_NoJumpAtSeam == cameraPath.cycleTime = CycleEnd => SeamJoins(cameraPath)

\* the instance returned is the cached one with the new settings, and a
\* FloatPattern has kept its base scatter
ReusedInPlace(call) ==
    /\ ~call.created
    /\ call.returned.class = call.before.class
    /\ call.returned.settings = call.settings
    /\ call.returned.basePositions = call.before.basePositions
    /\ call.returned.lastFloorSize = call.before.lastFloorSize
    /\ call.returned.lastPhotoCount = call.before.lastPhotoCount

\* C17: createPattern returns the same instance for successive calls with
\* the same pattern type and the same structural settings, with its settings
\* updated in place; a call that changes only non-structural settings creates
\* no instance and leaves the base scatter of a FloatPattern as it was.
C17_SameInstanceForSameKey == factoryCall.repeated => ReusedInPlace(factoryCall)

\* C18: after any sequence of createPattern calls, with any pattern types and
\* photo counts, the factory cache never holds more than 20 pattern instances.
C18_FactoryCacheBounded == Len(patternInstances) <= FACTORY_CACHE_MAX

\* a call with one more key than the cache may hold has just been made
C18_Witness ==
    /\ factoryCall.called
    /\ factoryCall.created
    /\ FactoryPlace = FACTORY_CACHE_MAX + 1
    /\ Len(patternInstances) <= FACTORY_CACHE_MAX

\* what a 'grid' request with the settings of the last call yields now
GridRequest ==
    generatePositions(createPattern(patternInstances, "grid",
                                    factoryCall.settings).pattern, 0, now).state

\* C19: createPattern called with a pattern type outside grid, float, wave
\* and spiral returns a GridPattern instance, and generatePositions on it
\* yields the state a 'grid' request with the same settings yields, with
\* photoCount positions.
C19_UnknownTypeIsGrid ==
    (factoryCall.called /\ factoryCall.patternType \notin PatternTypes)
        => /\ factoryCall.returned.class = "grid"
           /\ factoryCall.state = GridRequest
           /\ factoryCall.state.length = factoryCall.settings.photoCount

\* the last call asked for a pattern type that does not exist and got a
\* new instance
C19_Witness ==
    /\ factoryCall.called
    /\ factoryCall.patternType \notin PatternTypes
    /\ factoryCall.created
    /\ factoryCall.state.length = factoryCall.settings.photoCount

\* every entry delivered is on the fallback grid: 10 in a row, 5 apart, not
\* rotated
OnFallbackGrid(entries) ==
    \A k \in DOMAIN entries :
        /\ entries[k].targetPosition = FallbackPosition(entries[k].slotIndex)
        /\ entries[k].targetPosition.shape =
               <<(entries[k].slotIndex % 10) * 5 - 25,
                 (entries[k].slotIndex \div 10) * 5 - 25>>
        /\ entries[k].targetRotation = Zero

\* C20: when createPattern or generatePositions throws during a frame, the
\* frame still delivers an output through onPositionsUpdate: photoCount
\* entries on the fallback grid (10 per row, spacing 5, zero rotation), and
\* the slot assignments of the live photos are those the frame makes without
\* the failure.
C20_FallbackGridDelivered ==
    [][frameFailure' # "none"
         => /\ Len(photosWithPositions') = EffectivePhotoCount(settings'.photoCount)
            /\ OnFallbackGrid(photosWithPositions')
            /\ slotManager' = assignSlots(slotManager, SafePhotos(photos'))
            /\ \A k \in DOMAIN photosWithPositions' :
                   photosWithPositions'[k].id \in LiveIds(photos')
                       => photosWithPositions'[k].slotIndex
                              = SlotOf(slotManager', photosWithPositions'[k].id)]_vars

\* a frame failed and a live photo was delivered on the fallback grid
C20_Witness ==
    /\ frameFailure # "none"
    /\ Len(photosWithPositions) = EffectivePhotoCount(settings.photoCount)
    /\ \E k \in DOMAIN photosWithPositions :
           /\ photosWithPositions[k].id \in LiveIds(photos)
           /\ photosWithPositions[k].targetPosition.pattern = "fallback"

\* the records of a list that have an id
WithId(list) == SelectSeq(list, LAMBDA p : p # NoId)

\* C21: a photo record without an id is filtered out before reconciliation:
\* it never receives a slot, never appears in the frame output, is not counted
\* when the capacity is recomputed, and its presence in the list does not
\* change the slot of any other photo.
C21_MalformedRecordIgnored ==
    /\ NoId \notin DOMAIN slotManager.slotAssignments
    /\ \A k \in DOMAIN photosWithPositions : photosWithPositions[k].id # NoId
    /\ lastCall = "assignSlots"
           => slotManager.totalSlots
                  = Max(Len(WithId(photos)) + SLOT_HEADROOM, MIN_SLOTS)
    /\ assignSlots(slotManager, photos) = assignSlots(slotManager, WithId(photos))
    /\ \A list \in MalformedLists :
           assignSlots(slotManager, list) = assignSlots(slotManager, WithId(list))

\* a frame has run on a list with a record without an id that is long enough
\* for the capacity to depend on its length
C21_Witness ==
    /\ lastCall = "assignSlots"
    /\ photosWithPositions # <<>>
    /\ \E i \in DOMAIN photos : photos[i] = NoId
    /\ Len(photos) + SLOT_HEADROOM > MIN_SLOTS + 1

\* the floor size and photo count a FloatPattern computes its positions for
ScatterInputs(st) ==
    [floor |-> IF st.floorSize = 0 THEN DEFAULT_FLOOR_SIZE ELSE st.floorSize,
     count |-> Min(st.photoCount, MAX_PHOTOS)]

\* C22: the base scatter a FloatPattern uses for a slot index is the one of
\* its floorSize and photoCount, across any sequence of generatePositions and
\* updateSettings calls and across instances: cached basePositions are never
\* used for a floorSize or photoCount other than the one they were computed
\* for.
C22_ScatterOfItsSettings ==
    /\ pattern.class = "float" /\ pattern.basePositions.count > 0
           => pattern.basePositions = ScatterInputs(pattern.settings)
    /\ patternCall.state.pattern = "float"
           => patternCall.state.shape
                  = <<ScatterInputs(patternCall.settings).count,
                      ScatterInputs(patternCall.settings).floor>>

\* a FloatPattern that had a scatter for other settings has computed its
\* positions after updateSettings
C22_Witness ==
    /\ pattern.class = "float"
    /\ pattern.basePositions.count > 0
    /\ patternCall.settings = pattern.settings
    /\ patternCall.state.pattern = "float"
    /\ ScatterInputs(pattern.settings) # ScatterInputs(settings)
    /\ patternCall.time > 0

\* C23: after the scene unmounts, the instance cache of the pattern factory is
\* empty: unmounting releases every cached pattern instance.
C23_CacheReleasedOnUnmount == ~frameLoop.mounted => patternInstances = <<>>

\* C24: after the AnimationController unmounts, no position-update callback
\* that was requested before the unmount runs: onPositionsUpdate is not
\* called and the SlotManager is not changed after the unmount.
C24_NoUpdateAfterUnmount ==
    [][~frameLoop.mounted => /\ photosWithPositions' = photosWithPositions
                             /\ slotManager' = slotManager
                             /\ lastCall' = lastCall]_vars

\* the frames in which CameraMovementSystem.useFrame reaches the pattern path
PatternDriven ==
    /\ settings.cameraEnabled
    /\ ~userInteractingRef
    /\ isPatternCameraEnabled(settings)

\* C25: the accumulated camera time never decreases: a pattern-driven frame
\* advances it by delta * globalSpeed, a manual, global-orbit or hold frame
\* leaves it alone, and no pattern switch or settings change resets it.
C25_CameraTimeAccumulates ==
    [][/\ stateRef'.time >= stateRef.time
       /\ CameraFrame(1) =>
              stateRef'.time = stateRef.time
                  + (IF PatternDriven
                     THEN 1 * (OrDefault(settings.cameraRotationSpeed, PATH_SPEED) \div 2)
                     ELSE 0)
       /\ ~CameraFrame(1) => stateRef'.time = stateRef.time]_vars

\* a frame off the pattern path, with another pattern selected, has kept the
\* time that earlier pattern frames accumulated
C25_Witness ==
    /\ stateRef.time > 0
    /\ frameBranch \in {"manual", "globalRotation", "hold"}
    /\ ~PatternDriven

\* C26: for each of the four patterns, every time and every settings value the
\* returned PatternState has as many positions as rotations, min(photoCount,
\* 500) of each, and entry i is the one computed for slot index i.
C26_OneEntryPerSlot ==
    LET state == patternCall.state
        count == Min(patternCall.settings.photoCount, MAX_PHOTOS)
    IN  /\ state.length = count
        /\ state.rotations = count
        /\ \A i \in 0..(count - 1) :
               /\ PositionAt(state, i).index = i
               /\ RotationAt(state, i).index = i
               /\ PositionAt(state, i).pattern = ClassOf(patternCall.settings.animationPattern)
        /\ PositionAt(state, count) = Undefined
        /\ RotationAt(state, count) = Undefined

\* a call with animation off and more than 500 photos asked for, on an
\* instance whose settings had been replaced
C26_Witness ==
    /\ patternCall.settings.photoCount > MAX_PHOTOS
    /\ ~patternCall.settings.animationEnabled
    /\ patternCall.state.pattern = "spiral"
    /\ patternCall.state.length = MAX_PHOTOS
    /\ pattern.positionCache # <<>>

\* C27: when the interaction ends, the manual-interaction flag is cleared
\* 1500 ms after that 'end' and automatic motion resumes; a resume timer left
\* over from an earlier 'end' never clears the flag while a later interaction
\* (a 'start' with no 'end' after it) is still in progress.
C27_NoResumeDuringInteraction ==
    [][(interacting /\ userInteractingRef) => userInteractingRef']_vars

\* C28: if frames keep being rendered and the photo list and the settings
\* stop changing, a position update computed from the latest photo list and
\* settings is eventually delivered through onPositionsUpdate: the throttle
\* and the cancel-and-reschedule of updatePositions do not postpone it forever.
C28_UpdateEventuallyDelivered ==
    (<>[][photos' = photos /\ settings' = settings]_vars) => []<>frameLoop.delivered

\* C29: at any time at most one animation-frame callback requested by
\* updatePositions is pending: every accepted call cancels the callback
\* requested before it and then requests a new one, also when updatePositions
\* has been created anew for new photos or settings.
C29_OnePendingCallback == Len(frameLoop.callbacks) <= 1

\* an accepted call, made after the photos changed, has cancelled the callback
\* of the call before it: the one pending callback is the latest request and
\* closes over the new photos
C29_Witness ==
    /\ Len(frameLoop.callbacks) = 1
    /\ frameLoop.handle > 1
    /\ frameLoop.callbacks[1].handle = frameLoop.positionUpdateFrame
    /\ ~frameLoop.callbacks[1].due
    /\ frameLoop.callbacks[1].photos = photos
    /\ photos # <<>>
    /\ photosWithPositions = <<>>

\* positionCache holds at most 100 entries and has the keys of cacheTimestamps
CacheWellFormed(inst) ==
    /\ Len(inst.positionCache) <= POSITION_CACHE_MAX
    /\ Len(inst.cacheTimestamps) = Len(inst.positionCache)
    /\ MapKeys(inst.positionCache) = MapKeys(inst.cacheTimestamps)

\* C30: after every generatePositions and updateSettings call of a pattern
\* instance its position cache holds at most 100 entries and positionCache
\* and cacheTimestamps have exactly the same keys; updateSettings leaves both
\* empty.
C30_CacheBoundedAndPaired ==
    [][/\ CacheWellFormed(pattern')
       /\ (\E s \in CacheSettings : UpdateSettingsCall(s))
             => (pattern'.positionCache = <<>> /\ pattern'.cacheTimestamps = <<>>)]_vars

\* the 101st key has been stored and the oldest entry removed: the cache is
\* full and no longer holds the key of the first call
C30_Witness ==
    /\ Len(pattern.positionCache) = POSITION_CACHE_MAX
    /\ ~MapHas(pattern.positionCache, getCacheKey(pattern, 0))
    /\ MapHas(pattern.positionCache, getCacheKey(pattern, patternCall.time))

====
